---- MODULE Spec2Model ----
(***************************************************************************)
(* Background maintenance threads of bloomd (src/bloomd/background.c):      *)
(* the three start functions and the three thread bodies (flush, cold       *)
(* unmap, memory check), run against a filter manager whose answers are     *)
(* chosen nondeterministically.                                             *)
(***************************************************************************)
EXTENDS Integers, Sequences, FiniteSets, TLC

VARIABLES
    config,          \* bloom_config fields read by background.c
    should_run,      \* *should_run, the shared flag (1 = run, 0 = exit)
    ret,             \* return value of each start function, -1 = not called yet
    args,            \* the malloc'ed background_thread_args block of each kind
    pc,              \* position of each thread ("segv": it faulted)
    crashed,         \* the process died (SIGSEGV), no thread runs any more
    ticks,           \* unsigned int ticks of each thread
    head,            \* bloom_filter_list_head *head: the enumeration result
    node,            \* bloom_filter_list *node, as a 1-based index into head
    cmds,            \* unsigned int cmds
    max_memory,      \* size_t max_memory (memory check thread)
    safe_memory,     \* size_t safe_memory (memory check thread)
    current_memory,  \* size_t current_memory (memory check thread)
    \* ---- history (observations of the calls made, not program state) ----
    threads,         \* number of threads of each kind that came to exist
    regCalled,       \* the thread has called the filter manager at least once
    initCkpts,       \* checkpoints made before the loop
    wakes,           \* 1-based index of the current wake (number of usleep returns)
    wakeCkpts,       \* wake-level checkpoints made so far
    fired,           \* the maintenance action was started on the current wake
    lastTrig,        \* wake index of the latest trigger (0 = none)
    prevTrig,        \* wake index of the trigger before the latest
    prevFailed,      \* the cycle of prevTrig ended in an enumeration failure
    trigSample,      \* the sample taken at the latest trigger (memory check thread)
    enumerated,      \* enumeration of the latest cycle: "none", "ok" or "fail"
    ops,             \* per-filter calls of the latest cycle, in order
    midCkpts,        \* mid-pass checkpoints of the latest cycle
    released,        \* filtmgr_cleanup_list calls of the latest cycle
    held,            \* enumeration results obtained and not yet released
    enumUsed,        \* the enumeration call made in the latest cycle, or "none"
    lastRes,         \* what the latest flush or unmap call of the running pass returned
    sinceCkpt,       \* per-filter calls made since the thread's latest checkpoint
    sawStop,         \* a read of the flag by the thread has returned 0
    wakesAfterStop   \* wakes of the thread made with the flag already cleared

vars == << config, should_run, ret, args, pc, crashed, ticks, head, node, cmds,
           max_memory, safe_memory, current_memory, threads, regCalled,
           initCkpts, wakes, wakeCkpts, fired, lastTrig, prevTrig, prevFailed,
           trigSample, enumerated, ops, midCkpts, released, held, enumUsed,
           lastRes, sinceCkpt, sawStop, wakesAfterStop >>

progVars == << pc, crashed, ticks, head, node, cmds, max_memory, safe_memory,
               current_memory >>

histVars == << wakes, wakeCkpts, fired, lastTrig, prevTrig, prevFailed,
               trigSample, enumerated, ops, midCkpts, released, held >>

obsVars == << enumUsed, lastRes, sinceCkpt, sawStop, wakesAfterStop >>

----------------------------------------------------------------------------
(* Bounds of the model *)

\* width of the tick counter: unsigned int is 32 bits wide in the build; the
\* model keeps a narrow counter so that its wraparound is reached
TickBits == 4
\* wakes a thread makes when it is the only thread started
MaxWakes == 17
\* wakes a thread makes when several threads run side by side
MaxWakesConc == 4
\* longest enumeration result when one thread is started
MaxFilters == 33
\* longest enumeration result when several threads run side by side
MaxFiltersConc == 1
\* enumeration results up to this length are tried in both orders
MaxShort == 2
\* per-filter calls made through an invalid node before the process dies
MaxWild == 1

----------------------------------------------------------------------------
(* Program constants and pure helpers *)

PERIODIC_CHECKPOINT == 16

Kinds == {"flush", "cold", "memory"}

TickMod == 2 ^ TickBits

\* seconds taken for half-second ticks
SEC_TO_TICKS_Halved(sec) == sec * 2

\* SEC_TO_TICKS(sec): four ticks of PERIODIC_TIME_USEC to the second
SEC_TO_TICKS(sec) == sec * 4

\* ++ticks on an unsigned int
NextTick(t) == (t + 1) % TickMod

\* the interval in seconds taken for a tick count
TickDue_Unscaled(t, interval) == t % interval = 0

\* (++ticks % SEC_TO_TICKS(interval)) == 0, on the incremented value
TickDue(t, interval) == t % SEC_TO_TICKS(interval) = 0

\* the loop also entered on the first test whatever the flag says (do-while)
LoopEnters_DoWhile(flag, w) == flag # 0 \/ w = 0

\* while (*should_run), w being the wakes made so far
LoopEnters(flag, w) == flag # 0

\* the node kept when the call did not succeed
NextNode_RetryOnFailure(n, r) == IF r = 0 THEN n + 1 ELSE n

\* node = node->next, the result r of the per-filter call being ignored
NextNode(n, r) == n + 1

\* a checkpoint forced every second period only
CheckpointDue_EveryOther(c) == c % (2 * PERIODIC_CHECKPOINT) = 0

\* the guard of the start functions: "return if we are not scheduled"
NotScheduled(interval) == interval <= 0

\* config-><kind's interval>
Interval(k) ==
    CASE k = "flush" -> config.flush_interval
      [] k = "cold"  -> config.cold_interval
      [] OTHER       -> config.memory_check_interval

\* the per-filter call of each thread
PerFilterOp(k) ==
    CASE k = "flush" -> "flush"
      [] k = "cold"  -> "unmap"
      [] OTHER       -> "flush_and_unmap"

\* the enumeration call of each thread
EnumCall(k) == IF k = "cold" THEN "list_cold_filters" ELSE "list_filters"

\* only a positive result taken for a failure
EnumFailed_Positive(res) == res > 0

\* res != 0
EnumFailed(res) == res # 0

\* the test made on the value before the increment (cmds++)
CheckpointDue_PostIncrement(c) == (c - 1) % PERIODIC_CHECKPOINT = 0

\* !(++cmds % PERIODIC_CHECKPOINT), on the incremented value
CheckpointDue(c) == c % PERIODIC_CHECKPOINT = 0

\* eviction entered at the mark itself
OverMax_OrEqual(cur, max) == cur >= max

\* current_memory > max_memory
OverMax(cur, max) == cur > max

\* eviction continued at the mark itself
EvictMore_OrEqual(cur, safe) == cur >= safe

\* while (current_memory > safe_memory)
EvictMore(cur, safe) == cur > safe

\* (size_t)(percent * all_memory * 0.01); exact for the values used here,
\* whose products are not near a multiple of 100
Threshold(percent, all) == (percent * all) \div 100

\* getMemorySize()
AllMemory == 10

\* values getCurrentRSS() may return
RSSLevels == {2, 3, 5, 6}

\* a name read through an invalid node
Garbage == 0

----------------------------------------------------------------------------
(* Inputs *)

Cfg(f, c, m, p) ==
    [flush_interval |-> f, cold_interval |-> c, memory_check_interval |-> m,
     max_memory_percent |-> p[1], safe_memory_percent |-> p[2]]

\* intervals of a started thread: 4 and 12 ticks (12 does not divide TickMod)
OnValues == {1, 3}

\* max_memory_percent, safe_memory_percent: in order, and inverted (nothing
\* in background.c checks the order)
PercentPairs == { <<55, 25>>, <<25, 55>> }

\* one thread scheduled, the other two intervals zero and negative
SoloConfigs ==
    { Cfg(i, 0, -1, <<55, 25>>) : i \in OnValues } \cup
    { Cfg(-1, i, 0, <<55, 25>>) : i \in OnValues } \cup
    { Cfg(0, -1, i, p) : i \in OnValues, p \in PercentPairs }

\* several threads scheduled, or none
ConcConfigs ==
    { Cfg(1, 1, 1, <<55, 25>>), Cfg(1, 1, 0, <<55, 25>>),
      Cfg(-1, 1, 1, <<55, 25>>), Cfg(0, 0, 0, <<55, 25>>) }

Configs == SoloConfigs \cup ConcConfigs

Enabled(cfg) ==
    { k \in Kinds :
        CASE k = "flush" -> cfg.flush_interval > 0
          [] k = "cold"  -> cfg.cold_interval > 0
          [] OTHER       -> cfg.memory_check_interval > 0 }

Solo == Cardinality(Enabled(config)) <= 1

WakeCap == IF Solo THEN MaxWakes ELSE MaxWakesConc

LenCap == IF Solo THEN MaxFilters ELSE MaxFiltersConc

Fwd(n) == [i \in 1..n |-> i]

Rev(n) == [i \in 1..n |-> n + 1 - i]

\* lengths of the enumeration results tried: the short ones, those around
\* the multiples of PERIODIC_CHECKPOINT, and the longest
EnumLens ==
    { n \in 0..LenCap :
        \/ n <= MaxShort
        \/ n % PERIODIC_CHECKPOINT \in {PERIODIC_CHECKPOINT - 1, 0, 1}
        \/ n = LenCap }

\* what filtmgr_list_filters / filtmgr_list_cold_filters may hand back: the
\* names in ascending order, and for the short lists in descending order too
EnumResults ==
    { Fwd(n) : n \in EnumLens } \cup { Rev(n) : n \in { m \in EnumLens : m <= MaxShort } }

----------------------------------------------------------------------------
(* Initial state: nothing started, the flag says run *)

Init ==
    /\ config \in Configs
    /\ should_run = 1
    /\ ret = [k \in Kinds |-> -1]
    /\ args = [k \in Kinds |-> "none"]
    /\ pc = [k \in Kinds |-> "nothread"]
    /\ crashed = FALSE
    /\ ticks = [k \in Kinds |-> 0]
    /\ head = [k \in Kinds |-> << >>]
    /\ node = [k \in Kinds |-> 0]
    /\ cmds = [k \in Kinds |-> 0]
    /\ max_memory = 0
    /\ safe_memory = 0
    /\ current_memory = 0
    /\ threads = [k \in Kinds |-> 0]
    /\ regCalled = [k \in Kinds |-> FALSE]
    /\ initCkpts = [k \in Kinds |-> 0]
    /\ wakes = [k \in Kinds |-> 0]
    /\ wakeCkpts = [k \in Kinds |-> 0]
    /\ fired = [k \in Kinds |-> FALSE]
    /\ lastTrig = [k \in Kinds |-> 0]
    /\ prevTrig = [k \in Kinds |-> 0]
    /\ prevFailed = [k \in Kinds |-> FALSE]
    /\ trigSample = 0
    /\ enumerated = [k \in Kinds |-> "none"]
    /\ ops = [k \in Kinds |-> << >>]
    /\ midCkpts = [k \in Kinds |-> 0]
    /\ released = [k \in Kinds |-> 0]
    /\ held = [k \in Kinds |-> 0]
    /\ enumUsed = [k \in Kinds |-> "none"]
    /\ lastRes = [k \in Kinds |-> 0]
    /\ sinceCkpt = [k \in Kinds |-> 0]
    /\ sawStop = [k \in Kinds |-> FALSE]
    /\ wakesAfterStop = [k \in Kinds |-> 0]

----------------------------------------------------------------------------
(* The start functions *)

\* start_flush_thread / start_cold_unmap_thread / start_memory_check_thread.
\* pthread_create's result is not looked at: 1 is returned whether or not the
\* thread came to exist.
Start(k) ==
    /\ ~crashed
    /\ ret[k] = -1
    /\ IF NotScheduled(Interval(k))
       THEN /\ ret' = [ret EXCEPT ![k] = 0]
            /\ UNCHANGED << args, pc, threads >>
       ELSE \E created \in BOOLEAN :
            /\ args' = [args EXCEPT ![k] = "packed"]
            /\ pc' = [pc EXCEPT ![k] = IF created THEN "entry" ELSE "nothread"]
            /\ threads' = [threads EXCEPT ![k] = @ + (IF created THEN 1 ELSE 0)]
            /\ ret' = [ret EXCEPT ![k] = 1]
    /\ UNCHANGED << config, should_run, crashed, ticks, head, node, cmds,
                    max_memory, safe_memory, current_memory, regCalled,
                    initCkpts >>
    /\ UNCHANGED histVars
    /\ UNCHANGED obsVars

\* the controller clears the flag
Shutdown ==
    /\ ~crashed
    /\ should_run = 1
    /\ should_run' = 0
    /\ UNCHANGED << config, ret, args, threads, regCalled, initCkpts >>
    /\ UNCHANGED progVars
    /\ UNCHANGED histVars
    /\ UNCHANGED obsVars

----------------------------------------------------------------------------
(* The thread bodies *)

\* UNPACK_ARGS, the thresholds (memory check thread), the initial checkpoint,
\* ticks = 0
ThreadEntry(k) ==
    /\ ~crashed
    /\ pc[k] = "entry"
    /\ args' = [args EXCEPT ![k] = "freed"]
    /\ IF k = "memory"
       THEN /\ max_memory' = Threshold(config.max_memory_percent, AllMemory)
            /\ safe_memory' = Threshold(config.safe_memory_percent, AllMemory)
       ELSE UNCHANGED << max_memory, safe_memory >>
    /\ initCkpts' = [initCkpts EXCEPT ![k] = @ + 1]
    /\ regCalled' = [regCalled EXCEPT ![k] = TRUE]
    /\ ticks' = [ticks EXCEPT ![k] = 0]
    /\ pc' = [pc EXCEPT ![k] = "loop"]
    /\ UNCHANGED << config, should_run, ret, crashed, head, node, cmds,
                    current_memory, threads >>
    /\ UNCHANGED histVars
    /\ UNCHANGED obsVars

\* the loop test written as an assignment, while (*should_run = 1)
LoopTest_Assigns(k) ==
    /\ ~crashed
    /\ pc[k] = "loop"
    /\ should_run' = 1
    /\ pc' = [pc EXCEPT ![k] = "sleep"]
    /\ UNCHANGED << config, ret, args, crashed, ticks, head, node, cmds,
                    max_memory, safe_memory, current_memory, threads,
                    regCalled, initCkpts >>
    /\ UNCHANGED histVars
    /\ UNCHANGED obsVars

\* while (*should_run)
LoopTest(k) ==
    /\ ~crashed
    /\ pc[k] = "loop"
    /\ pc' = [pc EXCEPT ![k] =
                 IF LoopEnters(should_run, wakes[k]) THEN "sleep" ELSE "done"]
    /\ sawStop' = [sawStop EXCEPT ![k] = @ \/ should_run = 0]
    /\ UNCHANGED << config, should_run, ret, args, crashed, ticks, head, node,
                    cmds, max_memory, safe_memory, current_memory, threads,
                    regCalled, initCkpts >>
    /\ UNCHANGED histVars
    /\ UNCHANGED << enumUsed, lastRes, sinceCkpt, wakesAfterStop >>

\* usleep; filtmgr_client_checkpoint; the interval test with its second read
\* of the flag
Wake(k) ==
    /\ ~crashed
    /\ pc[k] = "sleep"
    /\ wakes[k] < WakeCap
    /\ LET t    == NextTick(ticks[k])
           trig == TickDue(t, Interval(k)) /\ should_run # 0
       IN  /\ ticks' = [ticks EXCEPT ![k] = t]
           /\ wakes' = [wakes EXCEPT ![k] = @ + 1]
           /\ wakeCkpts' = [wakeCkpts EXCEPT ![k] = @ + 1]
           /\ fired' = [fired EXCEPT ![k] = trig]
           /\ sinceCkpt' = [sinceCkpt EXCEPT ![k] = 0]
           /\ sawStop' = [sawStop EXCEPT ![k] =
                             @ \/ (TickDue(t, Interval(k)) /\ should_run = 0)]
           /\ wakesAfterStop' = [wakesAfterStop EXCEPT ![k] =
                                    @ + (IF should_run = 0 THEN 1 ELSE 0)]
           /\ IF trig
              THEN /\ pc' = [pc EXCEPT ![k] =
                                IF k = "memory" THEN "sample" ELSE "enum"]
                   /\ prevTrig' = [prevTrig EXCEPT ![k] = lastTrig[k]]
                   /\ lastTrig' = [lastTrig EXCEPT ![k] = wakes[k] + 1]
                   /\ prevFailed' = [prevFailed EXCEPT ![k] =
                                        enumerated[k] = "fail"]
                   /\ enumerated' = [enumerated EXCEPT ![k] = "none"]
                   /\ ops' = [ops EXCEPT ![k] = << >>]
                   /\ midCkpts' = [midCkpts EXCEPT ![k] = 0]
                   /\ released' = [released EXCEPT ![k] = 0]
                   /\ enumUsed' = [enumUsed EXCEPT ![k] = "none"]
              ELSE /\ pc' = [pc EXCEPT ![k] = "loop"]
                   /\ UNCHANGED << prevTrig, lastTrig, prevFailed, enumerated,
                                   ops, midCkpts, released, enumUsed >>
    /\ UNCHANGED << config, should_run, ret, args, crashed, head, node, cmds,
                    max_memory, safe_memory, current_memory, threads,
                    regCalled, initCkpts, trigSample, held, lastRes >>

\* current_memory = getCurrentRSS(); if (current_memory > max_memory)
MemSample(k) ==
    /\ ~crashed
    /\ k = "memory"
    /\ pc[k] = "sample"
    /\ \E s \in RSSLevels :
         /\ current_memory' = s
         /\ trigSample' = s
         /\ pc' = [pc EXCEPT ![k] =
                      IF OverMax(s, max_memory) THEN "enum" ELSE "loop"]
    /\ UNCHANGED << config, should_run, ret, args, crashed, ticks, head, node,
                    cmds, max_memory, safe_memory, threads, regCalled,
                    initCkpts, wakes, wakeCkpts, fired, lastTrig, prevTrig,
                    prevFailed, enumerated, ops, midCkpts, released, held >>
    /\ UNCHANGED obsVars

\* filtmgr_list_filters / filtmgr_list_cold_filters; on failure "continue",
\* otherwise node = head->head, cmds = 0
Enumerate(k) ==
    /\ ~crashed
    /\ pc[k] = "enum"
    /\ enumUsed' = [enumUsed EXCEPT ![k] = EnumCall(k)]
    /\ \E res \in {0, -1} :
         IF EnumFailed(res)
         THEN /\ pc' = [pc EXCEPT ![k] = "loop"]
              /\ enumerated' = [enumerated EXCEPT ![k] =
                                   IF res = 0 THEN "ok" ELSE "fail"]
              /\ UNCHANGED << head, node, cmds, held >>
         ELSE \E l \in EnumResults :
              /\ head' = [head EXCEPT ![k] = l]
              /\ node' = [node EXCEPT ![k] = 1]
              /\ cmds' = [cmds EXCEPT ![k] = 0]
              /\ held' = [held EXCEPT ![k] = @ + 1]
              /\ enumerated' = [enumerated EXCEPT ![k] =
                                   IF res = 0 THEN "ok" ELSE "fail"]
              /\ pc' = [pc EXCEPT ![k] = "iter"]
    /\ UNCHANGED << config, should_run, ret, args, crashed, ticks, max_memory,
                    safe_memory, current_memory, threads, regCalled, initCkpts,
                    wakes, wakeCkpts, fired, lastTrig, prevTrig, prevFailed,
                    trigSample, ops, midCkpts, released, lastRes, sinceCkpt,
                    sawStop, wakesAfterStop >>

\* the loop condition of the pass: while (node) for the flush and cold unmap
\* threads, while (current_memory > safe_memory) for the memory check thread
PassContinues(k) ==
    IF k = "memory"
    THEN EvictMore(current_memory, safe_memory)
    ELSE node[k] <= Len(head[k])

\* one iteration of the pass on a valid node: the per-filter call, the
\* periodic checkpoint, (memory check thread) the new sample, node = node->next
PassStep(k) ==
    /\ ~crashed
    /\ pc[k] = "iter"
    /\ PassContinues(k)
    /\ node[k] <= Len(head[k])
    /\ ops' = [ops EXCEPT ![k] =
                  Append(@, [op |-> PerFilterOp(k), name |-> head[k][node[k]]])]
    /\ cmds' = [cmds EXCEPT ![k] = @ + 1]
    /\ midCkpts' = [midCkpts EXCEPT ![k] =
                       @ + (IF CheckpointDue(cmds[k] + 1) THEN 1 ELSE 0)]
    /\ sinceCkpt' = [sinceCkpt EXCEPT ![k] =
                         IF CheckpointDue(cmds[k] + 1) THEN 0 ELSE @ + 1]
    /\ IF k = "memory"
       THEN \E s \in RSSLevels : current_memory' = s
       ELSE UNCHANGED current_memory
    /\ \E r \in {0, -1} :
         /\ lastRes' = [lastRes EXCEPT ![k] = IF k = "memory" THEN @ ELSE r]
         /\ node' = [node EXCEPT ![k] = NextNode(@, r)]
    /\ UNCHANGED << config, should_run, ret, args, pc, crashed, ticks, head,
                    max_memory, safe_memory, threads, regCalled, initCkpts,
                    wakes, wakeCkpts, fired, lastTrig, prevTrig, prevFailed,
                    trigSample, enumerated, released, held, enumUsed, sawStop,
                    wakesAfterStop >>

\* memory check thread, list exhausted and the sample still above the safe
\* mark: node is NULL and node->filter_name is read. The process dies, or the
\* read yields garbage and the iteration runs on it.
PassNullDeref(k) ==
    /\ ~crashed
    /\ pc[k] = "iter"
    /\ PassContinues(k)
    /\ node[k] > Len(head[k])
    /\ \/ /\ crashed' = TRUE
          /\ pc' = [pc EXCEPT ![k] = "segv"]
          /\ UNCHANGED << ops, cmds, midCkpts, current_memory, lastRes,
                          sinceCkpt >>
       \/ /\ cmds[k] < Len(head[k]) + MaxWild
          /\ ops' = [ops EXCEPT ![k] =
                        Append(@, [op |-> PerFilterOp(k), name |-> Garbage])]
          /\ cmds' = [cmds EXCEPT ![k] = @ + 1]
          /\ midCkpts' = [midCkpts EXCEPT ![k] =
                             @ + (IF CheckpointDue(cmds[k] + 1) THEN 1 ELSE 0)]
          /\ sinceCkpt' = [sinceCkpt EXCEPT ![k] =
                               IF CheckpointDue(cmds[k] + 1) THEN 0 ELSE @ + 1]
          /\ lastRes' = [lastRes EXCEPT ![k] = IF k = "memory" THEN @ ELSE -1]
          /\ \E s \in RSSLevels : current_memory' = s
          /\ UNCHANGED << crashed, pc >>
    /\ UNCHANGED << config, should_run, ret, args, ticks, head, node,
                    max_memory, safe_memory, threads, regCalled, initCkpts,
                    wakes, wakeCkpts, fired, lastTrig, prevTrig, prevFailed,
                    trigSample, enumerated, released, held, enumUsed, sawStop,
                    wakesAfterStop >>

\* the loop condition is false: filtmgr_cleanup_list(head), back to the
\* while (*should_run) test
PassCleanup(k) ==
    /\ ~crashed
    /\ pc[k] = "iter"
    /\ ~PassContinues(k)
    /\ released' = [released EXCEPT ![k] = @ + 1]
    /\ held' = [held EXCEPT ![k] = @ - 1]
    /\ head' = [head EXCEPT ![k] = << >>]
    /\ node' = [node EXCEPT ![k] = 0]
    /\ pc' = [pc EXCEPT ![k] = "loop"]
    /\ lastRes' = [lastRes EXCEPT ![k] = 0]
    /\ UNCHANGED << config, should_run, ret, args, crashed, ticks, cmds,
                    max_memory, safe_memory, current_memory, threads,
                    regCalled, initCkpts, wakes, wakeCkpts, fired, lastTrig,
                    prevTrig, prevFailed, trigSample, enumerated, ops,
                    midCkpts, enumUsed, sinceCkpt, sawStop, wakesAfterStop >>

----------------------------------------------------------------------------

Next ==
    \/ Shutdown
    \/ \E k \in Kinds : Start(k)
    \/ \E k \in Kinds : ThreadEntry(k)
    \/ \E k \in Kinds : LoopTest(k)
    \/ \E k \in Kinds : Wake(k)
    \/ \E k \in Kinds : MemSample(k)
    \/ \E k \in Kinds : Enumerate(k)
    \/ \E k \in Kinds : PassStep(k)
    \/ \E k \in Kinds : PassNullDeref(k)
    \/ \E k \in Kinds : PassCleanup(k)

Spec == Init /\ [][Next]_vars

----------------------------------------------------------------------------
(* Start functions: C1, C10 *)

\* C1: every start function that has returned decided on its own interval
\* alone: interval <= 0 gives 0, no thread of that kind and no call to the
\* filter manager by it; interval > 0 gives 1 and exactly one thread of that
\* kind.
C1_StartGatedByOwnInterval ==
    \A k \in Kinds :
        /\ ret[k] = -1 => threads[k] = 0
        /\ ret[k] # -1 =>
             IF Interval(k) <= 0
             THEN ret[k] = 0 /\ threads[k] = 0 /\ pc[k] = "nothread"
                  /\ ~regCalled[k]
             ELSE ret[k] = 1 /\ threads[k] = 1

\* C10: a start function returns 1 exactly when its thread was started, and
\* a packed argument block always has a thread about to unpack and free it.
C10_ReturnOneIffThreadStarted ==
    \A k \in Kinds :
        /\ (ret[k] = 1) <=> (threads[k] = 1)
        /\ args[k] = "packed" => pc[k] = "entry"

----------------------------------------------------------------------------
(* Wake schedule: C2 *)

\* C2 as stated: one wake-level checkpoint per wake, and the maintenance
\* action starts on exactly the wakes whose 1-based index is a positive
\* multiple of 4*I (as long as the flag is not cleared), never before the
\* first wake.
C2_TriggerOnWakeIndexMultiples ==
    \A k \in Kinds :
        /\ wakeCkpts[k] = wakes[k]
        /\ wakes[k] = 0 => ~fired[k] /\ lastTrig[k] = 0
        /\ wakes[k] >= 1 =>
             /\ fired[k] => wakes[k] % (4 * Interval(k)) = 0
             /\ should_run = 1 /\ wakes[k] % (4 * Interval(k)) = 0 => fired[k]

\* C2 amended: the same, on the value of the tick counter, which is the wake
\* index modulo the width of unsigned int: the action starts on exactly the
\* wakes on which that value is a multiple of 4*I.
C2_TriggerOnTickCounterMultiples ==
    \A k \in Kinds :
        /\ wakeCkpts[k] = wakes[k]
        /\ wakes[k] = 0 => ~fired[k] /\ lastTrig[k] = 0
        /\ wakes[k] >= 1 =>
             /\ fired[k] => (wakes[k] % TickMod) % (4 * Interval(k)) = 0
             /\ should_run = 1 /\ (wakes[k] % TickMod) % (4 * Interval(k)) = 0
                  => fired[k]

\* a thread with a 12-tick interval has triggered on wake 12, and one has
\* triggered on the wake at which the counter wrapped
C2_Witness ==
    \E k \in Kinds :
        /\ Interval(k) = 3 /\ should_run = 1
        /\ fired[k] /\ wakes[k] = TickMod /\ prevTrig[k] = 12

----------------------------------------------------------------------------
(* Memory check thread, the eviction loop: C3, C4, C9 *)

\* C3: each step of the memory check thread that issues a flush-and-unmap
\* does so on the next enumerated filter, in enumeration order, in a cycle
\* whose trigger sample was above max_memory, and only while the latest sample
\* is above safe_memory; the step that ends the pass (the release) is taken
\* only when the latest sample is at or below safe_memory.
C3_EvictStep ==
    LET k == "memory"
        n == Len(ops[k])
    IN  /\ ops'[k] # ops[k] /\ ops'[k] # << >> =>
             /\ Len(ops'[k]) = n + 1
             /\ SubSeq(ops'[k], 1, n) = ops[k]
             /\ ops'[k][n + 1].op = "flush_and_unmap"
             /\ n + 1 <= Len(head[k]) => ops'[k][n + 1].name = head[k][n + 1]
             /\ current_memory > safe_memory
             /\ trigSample > max_memory
             /\ enumerated[k] = "ok"
        /\ released'[k] > released[k] => current_memory <= safe_memory
        /\ pc[k] = "iter" /\ pc'[k] # "iter" =>
             current_memory <= safe_memory \/ node[k] > Len(head[k])

C3_EvictInOrderUntilSafe == [][C3_EvictStep]_vars

\* the pass is about to stop with filters left over: some filters evicted,
\* the sample at or below safe_memory, the next filter not evicted
C3_Witness ==
    /\ pc["memory"] = "iter"
    /\ Len(ops["memory"]) >= 2
    /\ current_memory <= safe_memory
    /\ node["memory"] <= Len(head["memory"])
    /\ ops["memory"][2].name = head["memory"][2]

\* C4: when the list is exhausted with the sample still above safe_memory the
\* loop ends without error after exactly Len(head) calls: the thread does
\* not fault and no flush-and-unmap is issued for a position past the end.
C4_ExhaustedListEndsPass ==
    /\ pc["memory"] # "segv"
    /\ pc["memory"] = "iter" => Len(ops["memory"]) <= Len(head["memory"])

\* C9: a trigger whose sample is at or below max_memory does nothing else in
\* that cycle; an enumeration happens only after a sample strictly above
\* max_memory; the thresholds stay what they were computed to be at start.
C9_AtOrBelowMaxDoesNothing ==
    LET k == "memory" IN
    /\ fired[k] /\ pc[k] # "sample" /\ trigSample <= max_memory =>
         /\ enumerated[k] = "none" /\ ops[k] = << >> /\ released[k] = 0
         /\ midCkpts[k] = 0 /\ held[k] = 0
         /\ pc[k] \in {"loop", "sleep", "done"}
    /\ enumerated[k] # "none" \/ pc[k] \in {"enum", "iter"} =>
         trigSample > max_memory
    /\ pc[k] \notin {"nothread", "entry"} =>
         /\ max_memory = (config.max_memory_percent * AllMemory) \div 100
         /\ safe_memory = (config.safe_memory_percent * AllMemory) \div 100

\* a trigger sampled exactly max_memory and the cycle is over
C9_Witness ==
    /\ fired["memory"] /\ pc["memory"] = "loop"
    /\ trigSample = max_memory /\ max_memory > 0
    /\ enumerated["memory"] = "none"

----------------------------------------------------------------------------
(* Enumeration failure: C5 *)

\* what every thread shows after a failed enumeration: no per-filter call, no
\* release, no mid-pass checkpoint, nothing held, the thread back in its wake
\* loop (or gone after the flag was cleared) with its tick counter untouched
C5_FailedCycleIsEmpty ==
    \A k \in Kinds :
        /\ wakes[k] >= 1 => ticks[k] = wakes[k] % TickMod
        /\ enumerated[k] = "fail" =>
             /\ ops[k] = << >> /\ released[k] = 0 /\ midCkpts[k] = 0
             /\ held[k] = 0
             /\ pc[k] \in {"loop", "sleep", "done"}

\* C5 as stated: a failed cycle is empty and the trigger that follows it comes
\* exactly 4*I wakes later.
C5_NextTriggerAfterFourI ==
    /\ C5_FailedCycleIsEmpty
    /\ \A k \in Kinds :
         fired[k] /\ prevFailed[k] =>
             lastTrig[k] - prevTrig[k] = 4 * Interval(k)

\* C5 amended: a failed cycle is empty and the trigger that follows it comes
\* on the first later wake whose tick counter is a multiple of 4*I, which is
\* 4*I wakes later unless the counter wrapped in between.
C5_NextTriggerOnSchedule ==
    /\ C5_FailedCycleIsEmpty
    /\ \A k \in Kinds :
         fired[k] /\ prevFailed[k] =>
             /\ ticks[k] % (4 * Interval(k)) = 0
             /\ \A w \in (prevTrig[k] + 1)..(lastTrig[k] - 1) :
                    (w % TickMod) % (4 * Interval(k)) # 0
             /\ \/ lastTrig[k] - prevTrig[k] = 4 * Interval(k)
                \/ lastTrig[k] % TickMod = 0

\* the trigger after a failed cycle runs a normal pass
C5_Witness ==
    \E k \in Kinds :
        /\ fired[k] /\ prevFailed[k]
        /\ enumerated[k] = "ok" /\ Len(ops[k]) >= 2
        /\ lastTrig[k] - prevTrig[k] = 4 * Interval(k)

----------------------------------------------------------------------------
(* Cancellation during a pass: C6 *)

\* C6: with the flag cleared during a cycle, the pass in flight completes
\* normally (the thread does not fault and does not run past the enumerated
\* list) and its enumeration result is released before the thread is done.
C6_InFlightPassCompletes ==
    \A k \in Kinds :
        should_run = 0 =>
            /\ pc[k] # "segv"
            /\ pc[k] = "iter" => Len(ops[k]) <= Len(head[k])
            /\ pc[k] = "done" =>
                 held[k] = 0 /\ (enumerated[k] = "ok" => released[k] = 1)

----------------------------------------------------------------------------
(* Mid-pass checkpoints and release: C7, C8 *)

\* C7: after n per-filter calls of a pass exactly floor(n/16) mid-pass
\* checkpoints have been made, at every point of every pass, and the per-pass
\* counter equals the number of calls of that pass.
C7_MidPassCheckpoints ==
    \A k \in Kinds :
        /\ midCkpts[k] = Len(ops[k]) \div 16
        /\ pc[k] = "iter" => cmds[k] = Len(ops[k])

\* a second or later pass of a thread has made 33 calls and 2 checkpoints
C7_Witness ==
    \E k \in Kinds :
        /\ Len(ops[k]) = 33 /\ midCkpts[k] = 2
        /\ prevTrig[k] > 0 /\ ~prevFailed[k]

\* C8: every enumeration result is released exactly once, on every path: a
\* thread holds at most one, holds one only while its pass is running, and
\* has released it once the pass is over, however the pass ended.
C8_ReleasedExactlyOnce ==
    \A k \in Kinds :
        /\ held[k] \in {0, 1} /\ released[k] <= 1
        /\ held[k] = 1 => pc[k] = "iter"
        /\ pc[k] # "iter" /\ enumerated[k] = "ok" =>
             released[k] = 1 /\ held[k] = 0

----------------------------------------------------------------------------
(* Per-filter outcomes in the flush and cold unmap threads: C11 *)

\* C11: after a successful enumeration the flush thread and the cold unmap
\* thread make their per-filter call exactly once for every enumerated name,
\* in the order of the list, whatever each call returns: every call is made
\* on the name that follows the calls already made, the pass is left only by
\* releasing the list, and at the release the calls made are the whole list.
C11_Step ==
    \A k \in {"flush", "cold"} :
        /\ ops'[k] # ops[k] /\ ops'[k] # << >> =>
             /\ pc[k] = "iter" /\ enumerated[k] = "ok"
             /\ Len(ops[k]) < Len(head[k])
             /\ ops'[k] = Append(ops[k], [op   |-> PerFilterOp(k),
                                          name |-> head[k][Len(ops[k]) + 1]])
        /\ pc[k] = "iter" /\ pc'[k] # "iter" =>
             released'[k] = released[k] + 1
        /\ released'[k] = released[k] + 1 =>
             /\ Len(ops[k]) = Len(head[k])
             /\ \A i \in 1..Len(head[k]) : ops[k][i].name = head[k][i]

C11_OncePerNameInOrder == [][C11_Step]_vars

\* a call of a pass has returned not-found and the pass has names left
C11_Witness ==
    \E k \in {"flush", "cold"} :
        /\ pc[k] = "iter" /\ lastRes[k] = -1
        /\ Len(ops[k]) >= 1 /\ Len(ops[k]) < Len(head[k])

----------------------------------------------------------------------------
(* Shutdown: C12 *)

\* C12: once the flag is cleared every running thread comes to its end: it
\* does not fault and does not run a pass past its list, it wakes (and makes
\* the checkpoint of a wake) at most once more, and once a read of the flag
\* by the thread has returned 0 the thread samples and enumerates no more.
C12_BoundedShutdown ==
    \A k \in Kinds :
        /\ sawStop[k] => should_run = 0 /\ pc[k] \in {"loop", "done"}
        /\ should_run = 0 =>
             /\ wakesAfterStop[k] <= 1
             /\ wakeCkpts[k] = wakes[k]
             /\ pc[k] # "segv"
             /\ pc[k] = "iter" => cmds[k] <= Len(head[k])
           

----------------------------------------------------------------------------
(* Registry operations of each thread: C13 *)

----------------------------------------------------------------------------
(* Checkpoint spacing: C14 *)

\* C14: a thread never makes more than 16 per-filter calls in a row without
\* a checkpoint between them, within a pass and from one pass into the next:
\* at every point at most 15 calls have been made since the thread's latest
\* checkpoint, so that a further call is at most the 16th of its run.
C14_AtMostSixteenBetweenCheckpoints ==
    \A k \in Kinds :
        /\ sinceCkpt[k] + 1 <= 16
        /\ pc[k] \in {"sample", "enum"} => sinceCkpt[k] = 0
        /\ pc[k] = "iter" =>
             sinceCkpt[k] = Len(ops[k]) - 16 * midCkpts[k]

\* a later pass of a thread has ended 15 calls after its latest checkpoint
C14_Witness ==
    \E k \in Kinds :
        /\ pc[k] \in {"loop", "sleep"} /\ prevTrig[k] > 0
        /\ sinceCkpt[k] = 15 /\ Len(ops[k]) = 31

----------------------------------------------------------------------------
(* Wraparound of the tick counter: C15 *)

\* C15, as stated: two consecutive triggers of a thread are never fewer than
\* T = 4*I wakes apart, wraparound of the tick counter included.
C15_TriggersAtLeastTApart ==
    \A k \in Kinds :
        fired[k] /\ prevTrig[k] > 0 =>
            lastTrig[k] - prevTrig[k] >= 4 * Interval(k)

\* C15, amended: two consecutive triggers of a thread are never more than
\* T = 4*I wakes apart, and fewer than T apart only when the later one is at
\* the wake on which the counter wraps to 0, which then comes 2^w mod T wakes
\* after the earlier one: the wrap makes a trigger early, it never drops one.
C15_WrapTriggersEarly ==
    \A k \in Kinds :
        fired[k] /\ prevTrig[k] > 0 =>
            /\ lastTrig[k] - prevTrig[k] <= 4 * Interval(k)
            /\ lastTrig[k] - prevTrig[k] < 4 * Interval(k) =>
                 /\ lastTrig[k] % (2 ^ TickBits) = 0
                 /\ ticks[k] < 4 * Interval(k)
                 /\ lastTrig[k] - prevTrig[k] = (2 ^ TickBits) % (4 * Interval(k))

\* a trigger on the wrap of the counter, early after the one before it
C15_Witness ==
    \E k \in Kinds :
        /\ fired[k] /\ prevTrig[k] > 0
        /\ ticks[k] = 0 /\ pc[k] \in {"sample", "enum"}
        /\ lastTrig[k] - prevTrig[k] = (2 ^ TickBits) % (4 * Interval(k))
        /\ lastTrig[k] - prevTrig[k] < 4 * Interval(k)

----------------------------------------------------------------------------
(* Start-up of a thread: C16 *)

\* C16: every thread that was launched makes exactly one checkpoint before
\* its first sleep and before any enumeration, and a thread whose first test
\* of the flag finds it cleared is done after that one checkpoint, with no
\* sleep, no checkpoint of a wake, no enumeration and no per-filter call.
C16_StartUpSequence ==
    \A k \in Kinds :
        /\ pc[k] \in {"loop", "sleep", "sample", "enum", "iter", "done"} =>
             initCkpts[k] = 1
        /\ initCkpts[k] \in {0, 1}
        /\ initCkpts[k] = 0 => wakes[k] = 0 /\ pc[k] # "segv"
        /\ wakes[k] = 0 =>
             /\ wakeCkpts[k] = 0 /\ sinceCkpt[k] = 0
             /\ enumUsed[k] = "none" /\ enumerated[k] = "none"
             /\ ops[k] = << >>
             /\ pc[k] \notin {"sample", "enum", "iter", "segv"}
        /\ sawStop[k] /\ wakesAfterStop[k] = 0 =>
             pc[k] = "done"
        /\ sawStop[k] /\ wakes[k] = 0 =>
             initCkpts[k] = 1 /\ threads[k] = 1

\* a thread started with the flag already cleared is done after its one
\* checkpoint, never having slept
C16_Witness ==
    \E k \in Kinds :
        /\ pc[k] = "done" /\ sawStop[k]
        /\ wakes[k] = 0 /\ initCkpts[k] = 1

----------------------------------------------------------------------------
(* Writers of the flag and of the configuration: C17 *)

\* C17: no step of a thread writes the flag or the configuration: the
\* configuration never changes, and the flag changes only from 1 to 0, in a
\* step of the controller that moves no thread.
C17_Step ==
    /\ config' = config
    /\ should_run = 0 => should_run' = 0
    /\ should_run' # should_run =>
         /\ should_run = 1 /\ should_run' = 0
         /\ progVars' = progVars
         /\ histVars' = histVars
    /\ progVars' # progVars => should_run' = should_run

C17_FlagAndConfigNotWrittenByThreads == [][C17_Step]_vars

\* with the flag cleared a thread has run a whole pass and is done
C17_Witness ==
    \E k \in Kinds :
        /\ should_run = 0 /\ pc[k] = "done"
        /\ released[k] = 1 /\ Len(ops[k]) >= 2 /\ wakesAfterStop[k] = 1

----------------------------------------------------------------------------
(* Independence of the threads: C18 *)

\* a step that moves one thread leaves the tick counter, the position and
\* the enumeration result of every other thread as they were
C18_Frame ==
    \A k \in Kinds : \A j \in Kinds \ {k} :
        (pc'[k] # pc[k] \/ ticks'[k] # ticks[k] \/ cmds'[k] # cmds[k]
           \/ node'[k] # node[k] \/ head'[k] # head[k]) =>
            /\ pc'[j] = pc[j] /\ ticks'[j] = ticks[j] /\ cmds'[j] = cmds[j]
            /\ node'[j] = node[j] /\ head'[j] = head[j]

\* the next step of a thread that is not done can be taken, wherever the
\* other threads are
C18_CanStep ==
    \A k \in Kinds :
        /\ pc[k] = "entry" => ENABLED ThreadEntry(k)
        /\ pc[k] = "loop" => ENABLED LoopTest(k)
        /\ pc[k] = "sleep" /\ wakes[k] < WakeCap => ENABLED Wake(k)
        /\ pc[k] = "sample" => ENABLED MemSample(k)
        /\ pc[k] = "enum" => ENABLED Enumerate(k)
        /\ pc[k] = "iter" =>
             ENABLED (PassStep(k) \/ PassNullDeref(k) \/ PassCleanup(k))

\* C18: the threads are independent: each has its own tick counter and pass
\* state, no step of one changes those of another, and no thread is ever
\* kept from its next step by where another thread is; while one thread is
\* inside a pass the others can wake, checkpoint and trigger.
C18_ThreadsIndependent == []C18_CanStep /\ [][C18_Frame]_vars

====
